---- MODULE Spec2Model ----
(***************************************************************************)
(* Model of src/main.py: the AWD / FBA inventory pipeline.                 *)
(*                                                                         *)
(* The script runs top to bottom in one thread: token exchange, the AWD    *)
(* snapshot, the FBA summary, the asynchronous Sales-and-Traffic report    *)
(* (submit, poll, document, download, parse), the merge and clean-up, and  *)
(* the upload of the two worksheets.  The remote services are the          *)
(* environment: every response is chosen nondeterministically.  An         *)
(* uncaught exception ends the process (pc = "failed").                    *)
(*                                                                         *)
(* Cell values are modelled by their text: "10" is the number 10, "" is    *)
(* the empty cell, NaN is pandas' missing-value marker.                    *)
(***************************************************************************)
EXTENDS Integers, Sequences, FiniteSets, TLC

\* ------------------------------------------------------------ constants

MAX_GSPREAD_RETRIES == 5

\* time.sleep(10) at the end of a poll iteration
POLL_SLEEP == 10

\* the range "A1:Z100000" handed to batch_clear
CLEAR_LAST_ROW == 100000

CLEAR_LAST_COL == 26

AWD_WORKSHEET_NAME == "AWD Data API Request"

FBA_WORKSHEET_NAME == "Amazon Data  API"

\* the two upload_to_sheet calls of the script, in program order
Worksheets == <<AWD_WORKSHEET_NAME, FBA_WORKSHEET_NAME>>

WorksheetNames == {AWD_WORKSHEET_NAME, FBA_WORKSHEET_NAME}

\* ------------------------------------------------------------ bounds

\* the remote job answers with a non-terminal status at most MaxPolls times
MaxPolls == 2

\* the merge is explored over snapshots and reports of at most MaxRows rows
MaxRows == 2

\* ------------------------------------------------------------ environment

NaN == "NaN"

\* processingStatus values: the three the code tests for, and three it does not
FailStatuses == {"FATAL", "CANCELLED"}

TerminalStatuses == {"DONE"} \cup FailStatuses

OtherStatuses == {"SUBMITTED", "IN_PROGRESS", "IN_QUEUE"}

Statuses == TerminalStatuses \cup OtherStatuses

\* reportDocumentId values a DONE response may carry
DocumentIds == {"doc-1", "doc-2"}

\* status codes of a gspread APIError
ApiErrorCodes == {503, 500}

\* the date stamped on both frames (datetime.now(EST_TZ))
Dates == {"2025-01-01"}

\* response.json()["inventory"] of the AWD endpoint
AwdPayloads ==
    { << [sku |-> "X1", totalOnhandQuantity |-> "10", totalInboundQuantity |-> "5"],
         [sku |-> "X2", totalOnhandQuantity |-> "4"] >> }

\* response.json()["payload"]["inventorySummaries"] of the FBA endpoint
FbaPayloads ==
    { <<>>,
      << [sellerSku |-> "X1", asin |-> "B01",
          inventoryDetails |->
              [fulfillableQuantity |-> "8",
               reservedQuantity |-> [fcProcessingQuantity |-> "1",
                                     customerOrderQuantity |-> "2"]]],
         [sellerSku |-> "Y3", asin |-> "B03"] >> }

\* the downloaded document: its framing, its header and its rows
ReportDocuments ==
    { [gzip |-> TRUE,
       header |-> <<"seller-sku", "units-shipped-t30">>,
       lines |-> << <<"X1", "50">>, <<"X2", "3">> >>],
      [gzip |-> TRUE,
       header |-> <<"seller-sku", "asin", "units-shipped-t30">>,
       lines |-> << <<"X1", "B01", "50">>, <<"X2", "B02", "3">> >>],
      [gzip |-> TRUE,
       header |-> <<"seller-sku", "asin">>,
       lines |-> << <<"X1", "B01">> >>],
      [gzip |-> FALSE,
       header |-> <<"seller-sku", "units-shipped-t30">>,
       lines |-> << <<"X1", "50">> >>] }

\* the sequences over S of at most n elements
SeqUpTo(S, n) == UNION { [1..m -> S] : m \in 0..n }

\* inventorySummaries items as the FBA endpoint may send them: complete, with
\* inventoryDetails absent, with a null quantity, with quantities that are
\* not finite numbers
FbaItems ==
    { [sellerSku |-> "X1", asin |-> "B01",
       inventoryDetails |->
           [fulfillableQuantity |-> "8",
            reservedQuantity |-> [fcProcessingQuantity |-> "1",
                                  customerOrderQuantity |-> "2"]]],
      [sellerSku |-> "Y3", asin |-> "B03"],
      [sellerSku |-> "Y3", asin |-> "B03",
       inventoryDetails |-> [fulfillableQuantity |-> NaN]],
      [sellerSku |-> "X1", asin |-> "B01",
       inventoryDetails |->
           [fulfillableQuantity |-> "inf",
            reservedQuantity |-> [fcProcessingQuantity |-> "abc",
                                  customerOrderQuantity |-> "2"]]] }

\* rows of the report as pd.read_csv reads them: an empty cell reads NaN
ReportLines ==
    { <<"X1", "50">>, <<"X2", "3">>, <<"X1", "7">>, <<"Y3", NaN>>, <<"X2", "abc">> }

\* what a worksheet may hold before the run: cells <<row, column, value>>
StaleGrid ==
    { <<1, 1, "sku">>, <<2, 1, "OLD1">>, <<3, 1, "OLD2">>,
      <<4, 1, "OLD3">>, <<5, 1, "OLD4">> }

PriorContents ==
    { StaleGrid,
      StaleGrid \cup { <<CLEAR_LAST_ROW + 1, 1, "note">>, <<1, CLEAR_LAST_COL + 1, "note">> } }

\* ------------------------------------------------------------ data frames

\* a frame is [cols |-> sequence of column names, rows |-> sequence of rows]
EmptyFrame == [cols |-> <<>>, rows |-> <<>>]

Get(d, key, default) == IF key \in DOMAIN d THEN d[key] ELSE default

RECURSIVE SelectSeq2(_, _)
\* the subsequence of s whose elements are in set S (order kept)
SelectSeq2(s, S) ==
    IF s = <<>> THEN <<>>
    ELSE IF Head(s) \in S THEN <<Head(s)>> \o SelectSeq2(Tail(s), S)
    ELSE SelectSeq2(Tail(s), S)

\* pd.DataFrame(list of dicts): the columns are the keys present, a key a
\* dict lacks reads NaN
DataFrame(records, keys) ==
    LET present == UNION { DOMAIN records[i] : i \in 1..Len(records) }
        cols == SelectSeq2(keys, present)
    IN  [cols |-> cols,
         rows |-> [i \in 1..Len(records) |->
                     [j \in 1..Len(cols) |-> Get(records[i], cols[j], NaN)]]]

ColIndex(cols, name) == CHOOSE j \in 1..Len(cols) : cols[j] = name

HasCol(df, name) == \E j \in 1..Len(df.cols) : df.cols[j] = name

\* df[name] = value: set the column, adding it at the end when it is new
SetColumn(df, name, value) ==
    IF HasCol(df, name)
    THEN [df EXCEPT !.rows =
            [i \in 1..Len(df.rows) |->
               [df.rows[i] EXCEPT ![ColIndex(df.cols, name)] = value]]]
    ELSE [cols |-> Append(df.cols, name),
          rows |-> [i \in 1..Len(df.rows) |-> Append(df.rows[i], value)]]

\* df.replace([inf, -inf], "").fillna("")
Clean(df) ==
    [df EXCEPT !.rows =
        [i \in 1..Len(df.rows) |->
            [j \in 1..Len(df.rows[i]) |->
                IF df.rows[i][j] \in {NaN, "inf", "-inf"} THEN "" ELSE df.rows[i][j]]]]

AwdKeys == <<"sku", "totalOnhandQuantity", "totalInboundQuantity">>

FbaKeys ==
    <<"sellerSku", "asin", "Inventory Supply at FBA",
      "Reserved FC Processing", "Reserved Customer Order">>

\* one record of get_fba_inventory's loop
FbaRecord(item) ==
    LET inventory == Get(item, "inventoryDetails", <<>>)
        reserved == Get(inventory, "reservedQuantity", <<>>)
    IN  [ k \in {FbaKeys[j] : j \in 1..Len(FbaKeys)} |->
            CASE k = "sellerSku" -> Get(item, "sellerSku", "")
              [] k = "asin" -> Get(item, "asin", "")
              [] k = "Inventory Supply at FBA" -> Get(inventory, "fulfillableQuantity", "0")
              [] k = "Reserved FC Processing" -> Get(reserved, "fcProcessingQuantity", "0")
              [] k = "Reserved Customer Order" -> Get(reserved, "customerOrderQuantity", "0") ]

FbaFrame(items) ==
    DataFrame([i \in 1..Len(items) |-> FbaRecord(items[i])], FbaKeys)

ReportColumns == {"seller-sku", "units-shipped-t30"}

\* df[["seller-sku", "units-shipped-t30"]].copy() and the rename
UnitsFrame(doc) ==
    LET a == ColIndex(doc.header, "seller-sku")
        b == ColIndex(doc.header, "units-shipped-t30")
    IN  [cols |-> <<"sellerSku", "Units Shipped T30">>,
         rows |-> [i \in 1..Len(doc.lines) |-> <<doc.lines[i][a], doc.lines[i][b]>>]]

RECURSIVE Flatten(_)
Flatten(ss) == IF ss = <<>> THEN <<>> ELSE Head(ss) \o Flatten(Tail(ss))

\* df_fba.merge(df_units, on="sellerSku", how="left"): every left row, in
\* order, once per matching right row, or once with NaN when none matches
LeftMerge(left, right) ==
    LET k == ColIndex(left.cols, "sellerSku")
        matches(l) == SelectSeq(right.rows, LAMBDA r : r[1] = l[k])
        joined(l) ==
            IF matches(l) = <<>> THEN << Append(l, NaN) >>
            ELSE [m \in 1..Len(matches(l)) |-> Append(l, matches(l)[m][2])]
    IN  [cols |-> Append(left.cols, "Units Shipped T30"),
         rows |-> Flatten([i \in 1..Len(left.rows) |-> joined(left.rows[i])])]

\* df["Units Shipped T30"].fillna(0)
FillUnits(df) ==
    LET u == ColIndex(df.cols, "Units Shipped T30")
    IN  [df EXCEPT !.rows =
            [i \in 1..Len(df.rows) |->
                [df.rows[i] EXCEPT ![u] = IF @ = NaN THEN "0" ELSE @]]]

\* [df.columns.tolist()] + df.values.tolist()
Grid(df) == <<df.cols>> \o df.rows

\* ------------------------------------------------------------ worksheet

InClearRange(cell) == cell[1] <= CLEAR_LAST_ROW /\ cell[2] <= CLEAR_LAST_COL

\* a variant that clears nothing
BatchClearNothing(cells) == cells

\* a variant that clears "A2:Z100000", keeping the header row
BatchClearBelowHeader(cells) == { cell \in cells : ~InClearRange(cell) \/ cell[1] = 1 }

\* sheet.batch_clear(["A1:Z100000"])
BatchClear(cells) == { cell \in cells : ~InClearRange(cell) }

Covered(grid, cell) ==
    /\ cell[1] \in 1..Len(grid)
    /\ cell[2] \in 1..Len(grid[cell[1]])

LastRow(cells) == IF cells = {} THEN 0 ELSE CHOOSE r \in {cell[1] : cell \in cells} :
                                                \A cell \in cells : cell[1] <= r

\* a variant that appends below the last row in use (sheet.append_rows)
UpdateAppend(cells, grid) ==
    cells \cup { cell \in UNION { { <<LastRow(cells) + r, c, grid[r][c]>> :
                                        c \in 1..Len(grid[r]) } : r \in 1..Len(grid) } :
                 cell[3] # "" }

\* sheet.update(values=data, range_name="A1"): every cell of the grid is
\* overwritten, a "" value leaving the cell empty; cells the grid does not
\* cover are left as they are
Update(cells, grid) ==
    LET written ==
            UNION { { <<r, c, grid[r][c]>> : c \in 1..Len(grid[r]) } : r \in 1..Len(grid) }
    IN  { cell \in cells : ~Covered(grid, cell) }
        \cup { cell \in written : cell[3] # "" }

\* ------------------------------------------------------------ state

VARIABLES
    pc,             \* the statement the script is at
    error,          \* the exception that ended the run, "" while none
    failed_at,      \* the pc at which it was raised
    completed,      \* the stages that returned, in order
    requests,       \* HTTP requests sent so far, per endpoint
    bearer,         \* per endpoint: the x-amz-access-token values sent
    failures,       \* per endpoint: the non-2xx responses received
    access_token,
    extracted_at,
    df_awd, df_fba, df_units,
    statusLog,      \* the answered status polls, in order
    pollTrace,      \* the polls and sleeps of the poll loop, in order
    document_id,    \* reportDocumentId of the DONE response
    requested_doc,  \* the id the document request was made with
    compressed,     \* the downloaded document, while get_units_shipped_t30 holds it
    sheet,          \* the cells of each worksheet
    prior,          \* the cells each worksheet held before the run
    call,           \* index in Worksheets of the upload_to_sheet call running or due
    attempt,        \* its loop variable
    attemptOps,     \* the calls of the current attempt that have returned
    opens,          \* per worksheet: gs_client.open(...).worksheet(...) calls
    issued,         \* per worksheet: the kinds of call made on it
    cleared,        \* per worksheet: whether a batch_clear succeeded
    apiErrors,      \* per worksheet: the status codes of the APIErrors raised
    waits,          \* per worksheet: the time.sleep arguments, in order
    uploaded        \* per worksheet: upload_to_sheet returned

vars ==
    <<pc, error, failed_at, completed, requests, bearer, failures, access_token,
      extracted_at, df_awd, df_fba, df_units, statusLog, pollTrace, document_id,
      requested_doc, compressed, sheet, prior, call, attempt, attemptOps, opens,
      issued, cleared, apiErrors, waits, uploaded>>

httpVars == <<requests, bearer, failures>>

sourceVars == <<access_token, df_awd, df_fba, df_units>>

pollVars == <<statusLog, pollTrace, document_id, requested_doc, compressed>>

sinkVars ==
    <<sheet, call, attempt, attemptOps, opens, issued, cleared, apiErrors, waits, uploaded>>

Endpoints == {"token", "awd", "fba", "reports", "status", "document", "download"}

\* no document downloaded
NoDocument == [gzip |-> FALSE, header |-> <<>>, lines |-> <<>>]

Init ==
    /\ pc = "token"
    /\ error = ""
    /\ failed_at = ""
    /\ completed = <<>>
    /\ requests = [e \in Endpoints |-> 0]
    /\ bearer = [e \in Endpoints |-> {}]
    /\ failures = [e \in Endpoints |-> 0]
    /\ access_token = ""
    /\ extracted_at \in Dates
    /\ df_awd = EmptyFrame
    /\ df_fba = EmptyFrame
    /\ df_units = EmptyFrame
    /\ statusLog = <<>>
    /\ pollTrace = <<>>
    /\ document_id = ""
    /\ requested_doc = ""
    /\ compressed = NoDocument
    /\ prior \in [WorksheetNames -> PriorContents]
    /\ sheet = prior
    /\ call = 1
    /\ attempt = 0
    /\ attemptOps = <<>>
    /\ opens = [w \in WorksheetNames |-> 0]
    /\ issued = [w \in WorksheetNames |-> {}]
    /\ cleared = [w \in WorksheetNames |-> FALSE]
    /\ apiErrors = [w \in WorksheetNames |-> <<>>]
    /\ waits = [w \in WorksheetNames |-> <<>>]
    /\ uploaded = [w \in WorksheetNames |-> FALSE]

\* an uncaught exception: the interpreter exits
Raise(kind) ==
    /\ pc' = "failed"
    /\ error' = kind
    /\ failed_at' = pc
    /\ UNCHANGED completed

\* a variant that uploads as soon as both snapshots are fetched
AfterEager(stage) ==
    CASE stage = "token" -> "awd"
      [] stage = "awd" -> "fba"
      [] stage = "fba" -> "open"
      [] stage = "report" -> "merge"
      [] stage = "merge" -> "open"
      [] stage = "upload" -> IF call < Len(Worksheets) THEN "open" ELSE "done"

\* the module-level statements, in the order the script runs them
After(stage) ==
    CASE stage = "token" -> "awd"
      [] stage = "awd" -> "fba"
      [] stage = "fba" -> "reports"
      [] stage = "report" -> "merge"
      [] stage = "merge" -> "open"
      [] stage = "upload" -> IF call < Len(Worksheets) THEN "open" ELSE "done"

\* the statement returned: go on to the next one
Return(stage) ==
    /\ pc' = After(stage)
    /\ completed' = Append(completed, stage)
    /\ UNCHANGED <<error, failed_at>>

\* a variant that leaves the header off the status polls
TokenHeaderNotOnPolls(endpoint) ==
    IF endpoint \in {"token", "download", "status"} THEN {} ELSE {access_token}

\* headers={"x-amz-access-token": access_token}: the token exchange and the
\* download of the document URL are made without it
TokenHeader(endpoint) ==
    IF endpoint \in {"token", "download"} THEN {} ELSE {access_token}

Sent(endpoint) ==
    /\ requests' = [requests EXCEPT ![endpoint] = @ + 1]
    /\ bearer' = [bearer EXCEPT ![endpoint] = @ \cup TokenHeader(endpoint)]

\* a variant that sends the request again after a non-2xx response
HttpErrorRetry(endpoint) ==
    /\ failures' = [failures EXCEPT ![endpoint] = @ + 1]
    /\ UNCHANGED <<pc, error, failed_at, completed>>

\* response.raise_for_status() on a non-2xx response
HttpError(endpoint) ==
    /\ failures' = [failures EXCEPT ![endpoint] = @ + 1]
    /\ Raise("HTTPError")

\* ------------------------------------------------------------ sources

get_access_token ==
    /\ pc = "token"
    /\ Sent("token")
    /\ \E ok \in BOOLEAN :
        IF ok
        THEN /\ access_token' = "Atza"
             /\ Return("token")
             /\ UNCHANGED failures
        ELSE /\ HttpError("token")
             /\ UNCHANGED access_token
    /\ UNCHANGED <<extracted_at, df_awd, df_fba, df_units, pollVars, sinkVars, prior>>

get_awd_inventory ==
    /\ pc = "awd"
    /\ Sent("awd")
    /\ \E ok \in BOOLEAN :
        IF ok
        THEN /\ \E inventory \in AwdPayloads : df_awd' = DataFrame(inventory, AwdKeys)
             /\ Return("awd")
             /\ UNCHANGED failures
        ELSE /\ HttpError("awd")
             /\ UNCHANGED df_awd
    /\ UNCHANGED <<access_token, extracted_at, df_fba, df_units, pollVars, sinkVars, prior>>

get_fba_inventory ==
    /\ pc = "fba"
    /\ Sent("fba")
    /\ \E ok \in BOOLEAN :
        IF ok
        THEN /\ \E summaries \in FbaPayloads : df_fba' = FbaFrame(summaries)
             /\ Return("fba")
             /\ UNCHANGED failures
        ELSE /\ HttpError("fba")
             /\ UNCHANGED df_fba
    /\ UNCHANGED <<access_token, extracted_at, df_awd, df_units, pollVars, sinkVars, prior>>

\* ------------------------------------------------------------ report

create_report ==
    /\ pc = "reports"
    /\ Sent("reports")
    /\ \E ok \in BOOLEAN :
        IF ok
        THEN /\ pc' = "status"
             /\ UNCHANGED <<completed, error, failed_at, failures>>
        ELSE HttpError("reports")
    /\ UNCHANGED <<sourceVars, extracted_at, pollVars, sinkVars, prior>>

\* status_response.json(): reportDocumentId is present once the report is DONE
StatusData(status, id) == [processingStatus |-> status, reportDocumentId |-> id]

StatusResponses ==
    { StatusData("DONE", id) : id \in DocumentIds }
    \cup { StatusData(s, "") : s \in Statuses \ {"DONE"} }

Poll == [op |-> "poll", secs |-> 0]

Sleep(secs) == [op |-> "sleep", secs |-> secs]

\* a variant that does not test for CANCELLED
PollBranchNoCancelled(status) ==
    IF status = "DONE" THEN "break"
    ELSE IF status = "FATAL" THEN "raise"
    ELSE "sleep"

\* a variant that takes any finished job for a usable one
PollBranchFatalDone(status) ==
    IF status \in {"DONE", "FATAL"} THEN "break"
    ELSE IF status = "CANCELLED" THEN "raise"
    ELSE "sleep"

\* a variant that rejects the statuses it does not know
PollBranchStrict(status) ==
    IF status = "DONE" THEN "break"
    ELSE IF status \in {"SUBMITTED", "IN_PROGRESS"} THEN "sleep"
    ELSE "raise"

\* the branch on processingStatus in the poll loop
PollBranch(status) ==
    IF status = "DONE" THEN "break"
    ELSE IF status \in {"FATAL", "CANCELLED"} THEN "raise"
    ELSE "sleep"

\* a variant of the loop that gives up after two polls
poll_status_capped ==
    /\ pc = "status"
    /\ Sent("status")
    /\ pollTrace' = Append(pollTrace, Poll)
    /\ \E status_data \in StatusResponses :
            LET status == status_data.processingStatus IN
            /\ status \in OtherStatuses => Len(statusLog) < MaxPolls
            /\ statusLog' = Append(statusLog, status_data)
            /\ IF status = "DONE"
               THEN /\ document_id' = status_data.reportDocumentId
                    /\ pc' = "document"
                    /\ UNCHANGED <<completed, error, failed_at>>
               ELSE IF status \in {"FATAL", "CANCELLED"}
               THEN /\ Raise("Report failed")
                    /\ UNCHANGED document_id
               ELSE IF Len(statusLog) >= 1
               THEN /\ Raise("Report timeout")
                    /\ UNCHANGED document_id
               ELSE UNCHANGED <<pc, completed, error, failed_at, document_id>>
    /\ UNCHANGED <<failures, sourceVars, extracted_at, requested_doc, compressed,
                   sinkVars, prior>>

\* one iteration of `while True`: the status request, the branch, the sleep
poll_status ==
    /\ pc = "status"
    /\ Sent("status")
    /\ \/ /\ HttpError("status")
          /\ pollTrace' = Append(pollTrace, Poll)
          /\ UNCHANGED <<statusLog, document_id>>
       \/ \E status_data \in StatusResponses :
            LET status == status_data.processingStatus IN
            /\ status \in OtherStatuses => Len(statusLog) < MaxPolls
            /\ statusLog' = Append(statusLog, status_data)
            /\ UNCHANGED failures
            /\ CASE PollBranch(status) = "break" ->
                      /\ document_id' = status_data.reportDocumentId
                      /\ pollTrace' = Append(pollTrace, Poll)
                      /\ pc' = "document"
                      /\ UNCHANGED <<completed, error, failed_at>>
                 [] PollBranch(status) = "raise" ->
                      /\ Raise("Report failed")
                      /\ pollTrace' = Append(pollTrace, Poll)
                      /\ UNCHANGED document_id
                 [] PollBranch(status) = "sleep" ->
                      /\ pollTrace' = pollTrace \o <<Poll, Sleep(POLL_SLEEP)>>
                      /\ UNCHANGED <<pc, completed, error, failed_at, document_id>>
    /\ UNCHANGED <<sourceVars, extracted_at, requested_doc, compressed, sinkVars, prior>>

get_document ==
    /\ pc = "document"
    /\ Sent("document")
    /\ requested_doc' = document_id
    /\ \E ok \in BOOLEAN :
        IF ok
        THEN /\ pc' = "download"
             /\ UNCHANGED <<completed, error, failed_at, failures>>
        ELSE HttpError("document")
    /\ UNCHANGED <<sourceVars, extracted_at, statusLog, pollTrace, document_id,
                   compressed, sinkVars, prior>>

\* compressed = requests.get(download_url)
download_report ==
    /\ pc = "download"
    /\ Sent("download")
    /\ \/ /\ HttpError("download")
          /\ UNCHANGED compressed
       \/ /\ \E doc \in ReportDocuments : compressed' = doc
          /\ pc' = "parse"
          /\ UNCHANGED <<completed, error, failed_at, failures>>
    /\ UNCHANGED <<sourceVars, extracted_at, statusLog, pollTrace, document_id,
                   requested_doc, sinkVars, prior>>

HeaderOf(doc) == { doc.header[j] : j \in 1..Len(doc.header) }

\* a variant that fills a column the report lacks instead of failing
ParseReportLenient(doc) ==
    IF ~doc.gzip THEN [error |-> "BadGzipFile", frame |-> EmptyFrame]
    ELSE [error |-> "",
          frame |-> [cols |-> <<"sellerSku", "Units Shipped T30">>,
                     rows |-> [i \in 1..Len(doc.lines) |->
                        << IF "seller-sku" \in HeaderOf(doc)
                           THEN doc.lines[i][ColIndex(doc.header, "seller-sku")] ELSE NaN,
                           IF "units-shipped-t30" \in HeaderOf(doc)
                           THEN doc.lines[i][ColIndex(doc.header, "units-shipped-t30")]
                           ELSE NaN >>]]]

\* gzip.GzipFile(fileobj=buffer).read(), pd.read_csv(..., sep="\t") and the
\* selection of the two columns: the exception raised ("" when none) and the
\* frame returned
ParseReport(doc) ==
    IF ~doc.gzip THEN [error |-> "BadGzipFile", frame |-> EmptyFrame]
    ELSE IF ~(ReportColumns \subseteq HeaderOf(doc))
    THEN [error |-> "KeyError", frame |-> EmptyFrame]
    ELSE [error |-> "", frame |-> UnitsFrame(doc)]

\* the rest of get_units_shipped_t30: decompress, parse, select, return
parse_report ==
    /\ pc = "parse"
    /\ LET parsed == ParseReport(compressed) IN
       IF parsed.error # ""
       THEN /\ Raise(parsed.error)
            /\ UNCHANGED <<df_units, compressed>>
       ELSE /\ df_units' = parsed.frame
            /\ compressed' = NoDocument
            /\ Return("report")
    /\ UNCHANGED <<httpVars, access_token, extracted_at, df_awd, df_fba, statusLog,
                   pollTrace, document_id, requested_doc, sinkVars, prior>>

\* ------------------------------------------------------------ merge

\* the MERGE and CLEAN sections
merge ==
    /\ pc = "merge"
    /\ IF ~HasCol(df_fba, "sellerSku")
       THEN /\ Raise("KeyError")
            /\ UNCHANGED <<df_awd, df_fba>>
       ELSE /\ df_fba' = Clean(SetColumn(FillUnits(LeftMerge(df_fba, df_units)),
                                         "Extracted At", extracted_at))
            /\ df_awd' = Clean(SetColumn(df_awd, "Extracted At", extracted_at))
            /\ Return("merge")
    /\ UNCHANGED <<httpVars, access_token, extracted_at, df_units, pollVars, prior,
                   sinkVars>>

\* ------------------------------------------------------------ sink

\* the arguments of the two upload_to_sheet calls
UploadName(c) == Worksheets[c]

UploadFrame(c) == IF c = 1 THEN df_awd ELSE df_fba

\* a variant that retries every server error
RetryableAny5xx(code) == code >= 500

\* getattr(e.response, "status_code", None) == 503
Retryable(code) == code = 503

\* wait = 2 ** attempt
Backoff(n) == 2 ^ n

\* a variant with one iteration too many
LastAttemptOffByOne(n) == n >= MAX_GSPREAD_RETRIES

\* for attempt in range(MAX_GSPREAD_RETRIES)
LastAttempt(n) == n + 1 >= MAX_GSPREAD_RETRIES

\* a variant whose retry repeats only the call that failed
OnAPIErrorResume(code) ==
    LET w == UploadName(call) IN
    /\ apiErrors' = [apiErrors EXCEPT ![w] = Append(@, code)]
    /\ UNCHANGED call
    /\ IF Retryable(code)
       THEN /\ waits' = [waits EXCEPT ![w] = Append(@, Backoff(attempt))]
            /\ IF LastAttempt(attempt)
               THEN /\ Raise("Upload failed")
                    /\ UNCHANGED <<attempt, attemptOps>>
               ELSE /\ attempt' = attempt + 1
                    /\ attemptOps' = <<>>
                    /\ UNCHANGED <<pc, completed, error, failed_at>>
       ELSE /\ Raise("APIError")
            /\ UNCHANGED <<attempt, attemptOps, waits>>

\* a variant that does not sleep before giving up
OnAPIErrorNoFinalSleep(code) ==
    LET w == UploadName(call) IN
    /\ apiErrors' = [apiErrors EXCEPT ![w] = Append(@, code)]
    /\ UNCHANGED call
    /\ IF Retryable(code)
       THEN IF LastAttempt(attempt)
            THEN /\ Raise("Upload failed")
                 /\ UNCHANGED <<attempt, attemptOps, waits>>
            ELSE /\ waits' = [waits EXCEPT ![w] = Append(@, Backoff(attempt))]
                 /\ attempt' = attempt + 1
                 /\ attemptOps' = <<>>
                 /\ pc' = "open"
                 /\ UNCHANGED <<completed, error, failed_at>>
       ELSE /\ Raise("APIError")
            /\ UNCHANGED <<attempt, attemptOps, waits>>

\* a variant that logs a failed upload and goes on to the next worksheet
OnAPIErrorSwallow(code) ==
    LET w == UploadName(call) IN
    /\ apiErrors' = [apiErrors EXCEPT ![w] = Append(@, code)]
    /\ IF Retryable(code) /\ ~LastAttempt(attempt)
       THEN /\ waits' = [waits EXCEPT ![w] = Append(@, Backoff(attempt))]
            /\ attempt' = attempt + 1
            /\ attemptOps' = <<>>
            /\ pc' = "open"
            /\ UNCHANGED <<completed, error, failed_at, call>>
       ELSE /\ waits' = IF Retryable(code)
                        THEN [waits EXCEPT ![w] = Append(@, Backoff(attempt))]
                        ELSE waits
            /\ Return("upload")
            /\ IF call < Len(Worksheets)
               THEN /\ call' = call + 1
                    /\ attempt' = 0
                    /\ attemptOps' = <<>>
               ELSE UNCHANGED <<call, attempt, attemptOps>>

\* `except APIError as e`, and what the loop does next
OnAPIError(code) ==
    LET w == UploadName(call) IN
    /\ apiErrors' = [apiErrors EXCEPT ![w] = Append(@, code)]
    /\ UNCHANGED call
    /\ IF Retryable(code)
       THEN /\ waits' = [waits EXCEPT ![w] = Append(@, Backoff(attempt))]
            /\ IF LastAttempt(attempt)
               THEN /\ Raise("Upload failed")
                    /\ UNCHANGED <<attempt, attemptOps>>
               ELSE /\ attempt' = attempt + 1
                    /\ attemptOps' = <<>>
                    /\ pc' = "open"
                    /\ UNCHANGED <<completed, error, failed_at>>
       ELSE /\ Raise("APIError")
            /\ UNCHANGED <<attempt, attemptOps, waits>>

Issue(kind) == issued' = [issued EXCEPT ![UploadName(call)] = @ \cup {kind}]

\* sheet = gs_client.open(SPREADSHEET_NAME).worksheet(name)
upload_open ==
    /\ pc = "open"
    /\ Issue("open")
    /\ opens' = [opens EXCEPT ![UploadName(call)] = @ + 1]
    /\ \/ /\ pc' = "clear"
          /\ attemptOps' = <<"open">>
          /\ UNCHANGED <<completed, error, failed_at, call, attempt, apiErrors, waits>>
       \/ \E code \in ApiErrorCodes : OnAPIError(code)
    /\ UNCHANGED <<httpVars, sourceVars, extracted_at, pollVars, prior,
                   sheet, cleared, uploaded>>

\* sheet.batch_clear(["A1:Z100000"])
upload_clear ==
    /\ pc = "clear"
    /\ Issue("clear")
    /\ \/ /\ sheet' = [sheet EXCEPT ![UploadName(call)] = BatchClear(@)]
          /\ cleared' = [cleared EXCEPT ![UploadName(call)] = TRUE]
          /\ pc' = "update"
          /\ attemptOps' = Append(attemptOps, "clear")
          /\ UNCHANGED <<completed, error, failed_at, call, attempt, apiErrors, waits>>
       \/ /\ \E code \in ApiErrorCodes : OnAPIError(code)
          /\ UNCHANGED <<sheet, cleared>>
    /\ UNCHANGED <<httpVars, sourceVars, extracted_at, pollVars, prior, opens, uploaded>>

\* sheet.update(values=data, range_name="A1", ...), then `return`
upload_update ==
    /\ pc = "update"
    /\ Issue("update")
    /\ \/ /\ sheet' = [sheet EXCEPT ![UploadName(call)] = Update(@, Grid(UploadFrame(call)))]
          /\ uploaded' = [uploaded EXCEPT ![UploadName(call)] = TRUE]
          /\ attemptOps' = Append(attemptOps, "update")
          /\ Return("upload")
          /\ IF call < Len(Worksheets)
             THEN /\ call' = call + 1
                  /\ attempt' = 0
             ELSE UNCHANGED <<call, attempt>>
          /\ UNCHANGED <<apiErrors, waits>>
       \/ /\ \E code \in ApiErrorCodes : OnAPIError(code)
          /\ UNCHANGED <<sheet, uploaded>>
    /\ UNCHANGED <<httpVars, sourceVars, extracted_at, pollVars, prior, opens, cleared>>

\* ------------------------------------------------------------ specification

Next ==
    \/ get_access_token
    \/ get_awd_inventory
    \/ get_fba_inventory
    \/ create_report
    \/ poll_status
    \/ get_document
    \/ download_report
    \/ parse_report
    \/ merge
    \/ upload_open
    \/ upload_clear
    \/ upload_update

Spec == Init /\ [][Next]_vars

\* the interpreter keeps running the script
LiveSpec == Init /\ [][Next]_vars /\ WF_vars(Next)

\* the script at the MERGE section, the three fetches having returned any
\* snapshot and any report of at most MaxRows rows
MergeInit ==
    /\ pc = "merge"
    /\ error = ""
    /\ failed_at = ""
    /\ completed = <<"token", "awd", "fba", "report">>
    /\ access_token = "Atza"
    /\ requests = [e \in Endpoints |-> 1]
    /\ bearer = [e \in Endpoints |-> TokenHeader(e)]
    /\ failures = [e \in Endpoints |-> 0]
    /\ extracted_at \in Dates
    /\ \E inventory \in AwdPayloads : df_awd = DataFrame(inventory, AwdKeys)
    /\ \E summaries \in SeqUpTo(FbaItems, MaxRows) : df_fba = FbaFrame(summaries)
    /\ \E lines \in SeqUpTo(ReportLines, MaxRows) :
            df_units = UnitsFrame([gzip |-> TRUE,
                                   header |-> <<"seller-sku", "units-shipped-t30">>,
                                   lines |-> lines])
    /\ statusLog = << StatusData("DONE", "doc-1") >>
    /\ pollTrace = << Poll >>
    /\ document_id = "doc-1"
    /\ requested_doc = "doc-1"
    /\ compressed = NoDocument
    /\ prior = [w \in WorksheetNames |-> StaleGrid]
    /\ sheet = prior
    /\ call = 1
    /\ attempt = 0
    /\ attemptOps = <<>>
    /\ opens = [w \in WorksheetNames |-> 0]
    /\ issued = [w \in WorksheetNames |-> {}]
    /\ cleared = [w \in WorksheetNames |-> FALSE]
    /\ apiErrors = [w \in WorksheetNames |-> <<>>]
    /\ waits = [w \in WorksheetNames |-> <<>>]
    /\ uploaded = [w \in WorksheetNames |-> FALSE]

MergeNext == merge

MergeSpec == MergeInit /\ [][MergeNext]_vars

\* ------------------------------------------------------------ properties

Last(seq) == seq[Len(seq)]

StatusSeq == [i \in 1..Len(statusLog) |-> statusLog[i].processingStatus]

\* position of the first terminal status answered, 0 when there is none yet
FirstTerminal ==
    LET T == { i \in 1..Len(StatusSeq) : StatusSeq[i] \in {"DONE", "FATAL", "CANCELLED"} }
    IN  IF T = {} THEN 0 ELSE CHOOSE i \in T : \A j \in T : i <= j

\* n polls with a 10 second sleep between each two
Cadence(n) == [i \in 1..(2 * n - 1) |-> IF i % 2 = 1 THEN Poll ELSE Sleep(10)]

SinkUntouched == sheet = prior /\ \A w \in WorksheetNames : issued[w] = {}

\* C1: when the first terminal status is the n-th answer, the adapter has
\* made exactly n status polls and n-1 sleeps of 10 seconds, one between each
\* two polls and none after the last; after DONE comes the document request,
\* after FATAL or CANCELLED the failure.
PollCadence ==
    LET n == FirstTerminal IN
    n > 0 =>
        /\ Len(statusLog) = n
        /\ requests["status"] = n
        /\ pollTrace = Cadence(n)
        /\ StatusSeq[n] = "DONE" => pc = "document" \/ requests["document"] = 1
        /\ StatusSeq[n] \in {"FATAL", "CANCELLED"} =>
               pc = "failed" /\ error = "Report failed" /\ requests["document"] = 0

PollCadenceWitness ==
    /\ StatusSeq = <<"IN_PROGRESS", "IN_PROGRESS", "DONE">>
    /\ requests["document"] = 1

\* C2: once a poll has answered FATAL or CANCELLED the run has failed, and
\* that poll is the last request: no later status poll, no document request,
\* no download, nothing on either worksheet.
ReportFailureAborts ==
    \A i \in 1..Len(StatusSeq) :
        StatusSeq[i] \in {"FATAL", "CANCELLED"} =>
            /\ i = Len(StatusSeq)
            /\ requests["status"] = i
            /\ pc = "failed"
            /\ error = "Report failed"
            /\ requests["document"] = 0
            /\ requests["download"] = 0
            /\ SinkUntouched

ReportFailureAbortsWitness ==
    /\ StatusSeq = <<"SUBMITTED", "CANCELLED">>
    /\ pc = "failed"

\* a poll answered with a status that is none of DONE, FATAL, CANCELLED
NonTerminalAnswer ==
    /\ statusLog' # statusLog
    /\ Last(statusLog').processingStatus \notin {"DONE", "FATAL", "CANCELLED"}

\* C3: a status other than DONE, FATAL and CANCELLED leaves the adapter in
\* the poll loop; the document is requested only after a DONE answer, and
\* with the document id of that answer.
OnlyDoneRetrieves ==
    /\ [][NonTerminalAnswer => pc' = "status" /\ error' = ""]_vars
    /\ [](requests["document"] > 0 =>
            /\ statusLog # <<>>
            /\ Last(statusLog).processingStatus = "DONE"
            /\ \A i \in 1..(Len(statusLog) - 1) :
                   StatusSeq[i] \notin {"DONE", "FATAL", "CANCELLED"}
            /\ requested_doc = Last(statusLog).reportDocumentId
            /\ requested_doc \in DocumentIds)

OnlyDoneRetrievesWitness ==
    /\ StatusSeq = <<"IN_QUEUE", "SUBMITTED", "DONE">>
    /\ requests["document"] = 1
    /\ requested_doc = "doc-2"

\* the poll loop is left
LeavesPollLoop == pc = "status" /\ pc' # "status"

\* C4: the poll loop has no cap: it is left only by a poll that answers a
\* terminal status or fails, however many polls went before; while it runs
\* there is no document request, no merge and nothing on the worksheets; and
\* when the job does reach a terminal status the loop ends.
PollLoopUnbounded ==
    /\ [][LeavesPollLoop =>
            /\ requests'["status"] = requests["status"] + 1
            /\ \/ error' = "HTTPError" /\ statusLog' = statusLog
               \/ /\ Len(statusLog') = Len(statusLog) + 1
                  /\ Last(statusLog').processingStatus \in {"DONE", "FATAL", "CANCELLED"}]_vars
    /\ [](pc = "status" =>
            /\ requests["document"] = 0
            /\ \A i \in 1..Len(completed) : completed[i] # "merge"
            /\ SinkUntouched)
    /\ (pc = "status") ~> (pc # "status")

PollLoopUnboundedWitness ==
    /\ pc = "status"
    /\ requests["status"] = MaxPolls
    /\ Len(statusLog) = MaxPolls

Count503(w) == Cardinality({ i \in 1..Len(apiErrors[w]) : apiErrors[w][i] = 503 })

\* C5: after k 503 responses and then success (k < 5) the writer has made
\* k+1 attempts and slept 2^i seconds after the i-th failure, i from 0;
\* after 5 503 responses it has failed with exactly 5 attempts made.
BackoffSchedule ==
    \A w \in WorksheetNames :
        /\ opens[w] <= 5
        /\ uploaded[w] =>
            /\ Count503(w) = Len(apiErrors[w])
            /\ Count503(w) < 5
            /\ opens[w] = Count503(w) + 1
            /\ waits[w] = [i \in 1..Count503(w) |-> 2 ^ (i - 1)]
        /\ Count503(w) >= 5 =>
            /\ Count503(w) = 5
            /\ opens[w] = 5
            /\ ~uploaded[w]
            /\ pc = "failed"
            /\ error = "Upload failed"

BackoffScheduleWitness ==
    /\ uploaded[AWD_WORKSHEET_NAME]
    /\ apiErrors[AWD_WORKSHEET_NAME] = <<503, 503>>
    /\ waits[AWD_WORKSHEET_NAME] = <<1, 2>>
    /\ opens[AWD_WORKSHEET_NAME] = 3

\* C6: an APIError whose status is not 503 ends the call at once: it is the
\* last response on that worksheet, no sleep follows it and no further
\* lookup, clear or write is made.
NonRetryableAborts ==
    \A w \in WorksheetNames :
        \A i \in 1..Len(apiErrors[w]) :
            apiErrors[w][i] # 503 =>
                /\ i = Len(apiErrors[w])
                /\ pc = "failed"
                /\ error = "APIError"
                /\ ~uploaded[w]
                /\ Len(waits[w]) = i - 1
                /\ opens[w] = i

NonRetryableAbortsWitness ==
    /\ apiErrors[FBA_WORKSHEET_NAME] = <<503, 500>>
    /\ failed_at = "clear"

\* the cells a successful upload_to_sheet call leaves, given the cells before
UploadResult(cells, df) == Update(BatchClear(cells), Grid(df))

\* C7: a second successful upload_to_sheet of the same frame to the same
\* worksheet leaves the cells the first one left.
UploadIdempotent ==
    \A c \in 1..Len(Worksheets) :
        uploaded[UploadName(c)] =>
            /\ sheet[UploadName(c)] = UploadResult(prior[UploadName(c)], UploadFrame(c))
            /\ UploadResult(sheet[UploadName(c)], UploadFrame(c)) = sheet[UploadName(c)]

UploadIdempotentWitness ==
    /\ uploaded[FBA_WORKSHEET_NAME]
    /\ prior[FBA_WORKSHEET_NAME] # StaleGrid
    /\ sheet[FBA_WORKSHEET_NAME] # prior[FBA_WORKSHEET_NAME]

\* the non-empty cells of a grid written at A1
GridCells(grid) ==
    { cell \in UNION { { <<r, c, grid[r][c]>> : c \in 1..Len(grid[r]) } : r \in 1..Len(grid) } :
        cell[3] # "" }

\* C8 as stated: after a successful upload the worksheet holds the new grid
\* and nothing else, whatever it held before.
OnlyNewGrid ==
    \A c \in 1..Len(Worksheets) :
        uploaded[UploadName(c)] => sheet[UploadName(c)] = GridCells(Grid(UploadFrame(c)))

\* C8 amended: after a successful upload the worksheet holds the new grid
\* and, besides it, only the prior cells outside A1:Z100000; no prior cell
\* inside that range survives, so no stale trailing row does.
OnlyNewGridInClearedRange ==
    \A c \in 1..Len(Worksheets) :
        LET w == UploadName(c)
            grid == Grid(UploadFrame(c))
        IN  uploaded[w] =>
              /\ sheet[w] = GridCells(grid)
                              \cup { cell \in prior[w] : ~InClearRange(cell) /\ ~Covered(grid, cell) }
              /\ \A cell \in sheet[w] : InClearRange(cell) => cell \in GridCells(grid)

OnlyNewGridWitness ==
    /\ uploaded[AWD_WORKSHEET_NAME]
    /\ prior[AWD_WORKSHEET_NAME] = StaleGrid
    /\ Len(Grid(df_awd)) < 5

\* C9 as stated: once a clear has succeeded and the call has not returned,
\* the worksheet is empty.
ClearedMeansEmpty ==
    \A w \in WorksheetNames :
        cleared[w] /\ ~uploaded[w] => sheet[w] = {}

\* C9 amended: once a clear has succeeded and the call has not returned
\* (the write failed, or the process stopped), the worksheet holds nothing
\* inside A1:Z100000, neither prior content nor the new grid; the prior
\* cells outside that range are still there.
ClearedMeansRangeEmpty ==
    \A w \in WorksheetNames :
        cleared[w] /\ ~uploaded[w] =>
            /\ \A cell \in sheet[w] : ~InClearRange(cell)
            /\ sheet[w] = { cell \in prior[w] : ~InClearRange(cell) }

ClearedMeansRangeEmptyWitness ==
    /\ pc = "failed"
    /\ failed_at = "update"
    /\ cleared[AWD_WORKSHEET_NAME]
    /\ ~uploaded[AWD_WORKSHEET_NAME]
    /\ prior[AWD_WORKSHEET_NAME] = StaleGrid
    /\ sheet[AWD_WORKSHEET_NAME] = {}

SourceStages ==
    {"token", "awd", "fba", "reports", "status", "document", "download", "parse", "merge"}

\* C10: a clear or a write is issued only after the token exchange, the three
\* fetches and the merge have all returned; a run that fails in one of those
\* stages ends with both worksheets as they were.
SinkAfterSources ==
    /\ (\E w \in WorksheetNames : issued[w] \cap {"clear", "update"} # {}) =>
            /\ Len(completed) >= 5
            /\ SubSeq(completed, 1, 5) = <<"token", "awd", "fba", "report", "merge">>
            /\ \A e \in Endpoints : requests[e] >= 1
    /\ pc \in SourceStages => SinkUntouched
    /\ pc = "failed" /\ failed_at \in SourceStages => SinkUntouched

SinkAfterSourcesWitness ==
    /\ pc = "failed"
    /\ failed_at = "merge"
    /\ requests["download"] = 1

\* the errors of the run that no handler caught
Unrecovered ==
    (IF \E e \in Endpoints : failures[e] > 0 THEN 1 ELSE 0)
    + Cardinality({ w \in WorksheetNames :
                        \E i \in 1..Len(apiErrors[w]) : apiErrors[w][i] # 503 })
    + Cardinality({ w \in WorksheetNames : Count503(w) >= MAX_GSPREAD_RETRIES })

\* C11: every error ends the run. While the AWD upload has not returned, no
\* call is made on the FBA worksheet and its cells stay as they were; the run
\* reaches its end only with both uploads returned and no error; a run that
\* has not failed has seen no error other than 503 responses of the
\* destination, fewer than five per worksheet; a failed run goes no further.
ErrorAbortsRun ==
    /\ ~uploaded[AWD_WORKSHEET_NAME] =>
            /\ issued[FBA_WORKSHEET_NAME] = {}
            /\ sheet[FBA_WORKSHEET_NAME] = prior[FBA_WORKSHEET_NAME]
            /\ ~uploaded[FBA_WORKSHEET_NAME]
    /\ pc = "done" =>
            /\ \A w \in WorksheetNames : uploaded[w]
            /\ error = ""
    /\ pc # "failed" =>
            /\ error = ""
            /\ Unrecovered = 0
    /\ pc = "failed" =>
            /\ error # ""
            /\ Unrecovered <= 1
            /\ ~ENABLED Next

ErrorAbortsRunWitness ==
    /\ pc = "failed"
    /\ call = 1
    /\ error \in {"APIError", "Upload failed"}
    /\ cleared[AWD_WORKSHEET_NAME]
    /\ ~uploaded[AWD_WORKSHEET_NAME]
    /\ issued[FBA_WORKSHEET_NAME] = {}

\* the SKUs of a frame
Keys(df) ==
    IF HasCol(df, "sellerSku")
    THEN { df.rows[i][ColIndex(df.cols, "sellerSku")] : i \in 1..Len(df.rows) }
    ELSE {}

\* the value of column `name` in row i
Cell(df, i, name) == df.rows[i][ColIndex(df.cols, name)]

\* the rows of a frame that carry the SKU
RowsOf(df, sku) == { i \in 1..Len(df.rows) : Cell(df, i, "sellerSku") = sku }

FbaNumeric ==
    {"Inventory Supply at FBA", "Reserved FC Processing", "Reserved Customer Order"}

\* the MERGE and CLEAN sections ran to their end in this step
Merged == pc = "merge" /\ pc' = "open"

\* C12: the merge is a full outer join of the FBA frame with the report rows:
\* the SKUs of the merged frame are those of either input, each on exactly
\* one row, and a SKU found only in the report keeps its shipped units and
\* has 0 in the FBA quantities and "" as asin.
FullOuterJoin ==
    [][Merged =>
        /\ Keys(df_fba') = Keys(df_fba) \cup Keys(df_units)
        /\ \A sku \in Keys(df_fba') : Cardinality(RowsOf(df_fba', sku)) = 1
        /\ \A sku \in Keys(df_units) \ Keys(df_fba) :
             \A i \in RowsOf(df_fba', sku) :
                /\ \E r \in RowsOf(df_units, sku) :
                      Cell(df_fba', i, "Units Shipped T30") = Cell(df_units, r, "Units Shipped T30")
                /\ \A name \in FbaNumeric : Cell(df_fba', i, name) = "0"
                /\ Cell(df_fba', i, "asin") = ""]_vars

\* C13: every row of the FBA frame whose SKU the report lacks is in the
\* merged frame with its FBA fields as they were and 0 as Units Shipped T30.
LeftOnlyDefaults ==
    [][Merged =>
        \A i \in 1..Len(df_fba.rows) :
            Cell(df_fba, i, "sellerSku") \notin Keys(df_units) =>
                \E j \in 1..Len(df_fba'.rows) :
                    /\ SubSeq(df_fba'.rows[j], 1, Len(df_fba.cols)) = df_fba.rows[i]
                    /\ Cell(df_fba', j, "Units Shipped T30") = "0"]_vars

\* the integers among the values of the model
IntValues == {"0", "1", "2", "3", "4", "5", "7", "8", "10", "50"}

NumericColumns ==
    FbaNumeric \cup {"Units Shipped T30", "totalOnhandQuantity", "totalInboundQuantity"}

\* the numeric cells of the batch upload_to_sheet builds from a frame
NumericCells(df) ==
    { Grid(df)[i + 1][j] : i \in 1..Len(df.rows),
                           j \in { c \in 1..Len(df.cols) : df.cols[c] \in NumericColumns } }

\* C14: once the script has reached the uploads, every value of a numeric
\* column in the two batches is an integer.
CoercedIntegers ==
    pc = "open" => NumericCells(df_awd) \cup NumericCells(df_fba) \subseteq IntValues

\* the two expected columns of the rows of a document, whatever else it holds
Expected(doc) ==
    [i \in 1..Len(doc.lines) |->
        << doc.lines[i][ColIndex(doc.header, "seller-sku")],
           doc.lines[i][ColIndex(doc.header, "units-shipped-t30")] >>]

\* C15: parsing a decompressed report that has both expected columns returns
\* exactly those two columns of its rows, other columns left out; parsing one
\* that lacks an expected column raises, and the run ends there with the
\* merge not run and both worksheets as they were.
ReportSchema ==
    /\ [][pc = "parse" /\ compressed.gzip =>
            IF ReportColumns \subseteq HeaderOf(compressed)
            THEN /\ pc' = "merge"
                 /\ df_units'.cols = <<"sellerSku", "Units Shipped T30">>
                 /\ df_units'.rows = Expected(compressed)
            ELSE /\ pc' = "failed"
                 /\ error' = "KeyError"
                 /\ df_units' = EmptyFrame]_vars
    /\ [](pc = "failed" /\ failed_at = "parse" =>
            /\ SinkUntouched
            /\ completed = <<"token", "awd", "fba">>
            /\ ~HasCol(df_fba, "Units Shipped T30")
            /\ ~HasCol(df_fba, "Extracted At"))

ReportSchemaWitness ==
    /\ pc = "failed"
    /\ failed_at = "parse"
    /\ error = "KeyError"
    /\ compressed.gzip
    /\ "seller-sku" \in HeaderOf(compressed)
    /\ "units-shipped-t30" \notin HeaderOf(compressed)

\* C18: a downloaded document that has the expected columns is parsed to the
\* same rows whether gzip-compressed or plain, and parsing it does not fail.
DecodesEitherFraming ==
    [][pc = "parse" /\ ReportColumns \subseteq HeaderOf(compressed) =>
            /\ pc' = "merge"
            /\ df_units' = UnitsFrame([compressed EXCEPT !.gzip = TRUE])]_vars

\* the endpoints the adapters request, in the order the script reaches them
AdapterEndpoints == <<"awd", "fba", "reports", "status", "document", "download">>

AdapterRequests == { AdapterEndpoints[i] : i \in 1..Len(AdapterEndpoints) }

\* the token exchange is made once and before every other request, and when
\* it is refused nothing else is requested
TokenOnce ==
    /\ requests["token"] <= 1
    /\ \A e \in AdapterRequests : requests[e] > 0 =>
            /\ requests["token"] = 1
            /\ failures["token"] = 0
            /\ access_token # ""
    /\ failures["token"] > 0 =>
            /\ pc = "failed"
            /\ failed_at = "token"
            /\ requests["token"] = 1
            /\ \A e \in AdapterRequests : requests[e] = 0
            /\ SinkUntouched

\* C16 as stated: the token is requested once, before any adapter request,
\* every request an adapter has made carried it, and a refused token exchange
\* ends the run with nothing else requested.
TokenOnEveryRequest ==
    /\ TokenOnce
    /\ \A e \in AdapterRequests : requests[e] > 0 => bearer[e] = {access_token}

\* C16: the token is requested once, before any adapter request; every
\* request to the snapshot, report, status and document endpoints carried it,
\* the download of the document carried no token; a refused token exchange
\* ends the run with nothing else requested.
TokenOnApiRequests ==
    /\ TokenOnce
    /\ \A e \in AdapterRequests \ {"download"} : requests[e] > 0 => bearer[e] = {access_token}
    /\ bearer["download"] = {}

TokenOnApiRequestsWitness ==
    /\ requests["status"] = 2
    /\ bearer["status"] = {"Atza"}
    /\ requests["download"] = 1
    /\ bearer["download"] = {}

\* C17: a non-2xx response to an adapter request ends the run: it is the only
\* one, the request it answered is the last the endpoint received, no endpoint
\* of a later stage is requested, the merge is not run, the worksheets are
\* as they were, and the failed run takes no further step.
NoSourceRetry ==
    \A i \in 1..Len(AdapterEndpoints) :
        LET e == AdapterEndpoints[i] IN
        failures[e] > 0 =>
            /\ failures[e] = 1
            /\ pc = "failed"
            /\ error = "HTTPError"
            /\ ~ENABLED Next
            /\ requests[e] = (IF e = "status" THEN Len(statusLog) + 1 ELSE 1)
            /\ \A j \in (i + 1)..Len(AdapterEndpoints) : requests[AdapterEndpoints[j]] = 0
            /\ \A k \in 1..Len(completed) : completed[k] \notin {"merge", "upload"}
            /\ SinkUntouched

NoSourceRetryWitness ==
    /\ failures["status"] = 1
    /\ requests["status"] = 2
    /\ Len(statusLog) = 1
    /\ pc = "failed"

\* the script is inside upload_to_sheet
InUpload == pc \in {"open", "clear", "update"}

\* what a step of upload_to_sheet may do: return only from the write of a
\* full attempt, and after a 503 short of the last attempt start the next
\* attempt at the lookup
AttemptStep ==
    LET w == UploadName(call)
        retried == /\ Len(apiErrors'[w]) > Len(apiErrors[w])
                   /\ Last(apiErrors'[w]) = 503
                   /\ attempt < MAX_GSPREAD_RETRIES - 1
    IN  /\ uploaded'[w] # uploaded[w] =>
                pc = "update" /\ attemptOps = <<"open", "clear">>
        /\ retried =>
                /\ pc' = "open"
                /\ attempt' = attempt + 1
                /\ attemptOps' = <<>>
                /\ call' = call

\* C19: within an attempt the lookup, the clear and the write run in that
\* order, each after the one before it returned: the write is issued on a
\* worksheet whose range the clear of the same attempt emptied; a 503 from
\* any of the three calls, short of the last attempt, starts a new attempt at
\* the lookup, with nothing of the old attempt counted.
AttemptSequence ==
    /\ [](/\ pc = "clear" => attemptOps = <<"open">>
          /\ pc = "update" =>
                /\ attemptOps = <<"open", "clear">>
                /\ \A cell \in sheet[UploadName(call)] : ~InClearRange(cell)
          /\ \A w \in WorksheetNames : uploaded[w] => cleared[w]
          /\ pc = "done" => attemptOps = <<"open", "clear", "update">>)
    /\ [][InUpload => AttemptStep]_vars

AttemptSequenceWitness ==
    /\ pc = "update"
    /\ call = 1
    /\ attempt = 2
    /\ opens[AWD_WORKSHEET_NAME] = 3
    /\ apiErrors[AWD_WORKSHEET_NAME] = <<503, 503>>
    /\ attemptOps = <<"open", "clear">>

\* C20: on each worksheet there is one sleep per 503 response, the i-th of
\* them (from 0) of 2^i seconds; the call that gives up has slept 1, 2, 4, 8
\* and 16 seconds, the last of them after the fifth 503 and before the failure.
SleepAfterEvery503 ==
    /\ \A w \in WorksheetNames :
        /\ Len(waits[w]) = Count503(w)
        /\ \A i \in 1..Len(waits[w]) : waits[w][i] = 2 ^ (i - 1)
    /\ error = "Upload failed" =>
        /\ waits[UploadName(call)] = <<1, 2, 4, 8, 16>>
        /\ apiErrors[UploadName(call)] = <<503, 503, 503, 503, 503>>

SleepAfterEvery503Witness ==
    /\ pc = "failed"
    /\ error = "Upload failed"
    /\ call = 2
    /\ waits[FBA_WORKSHEET_NAME] = <<1, 2, 4, 8, 16>>

====
